---- MODULE Spec2Model ----
(***************************************************************************)
(* Model of skills/teams-plan/scripts/validate_team.py: the TeamValidator  *)
(* rule set, the reports-to cycle detector (as an operator inside the      *)
(* dependencies rule and, step by step, in the variable dfs), the          *)
(* validate() driver, the report of generate_optimization_report and a     *)
(* second validator running beside the first.                              *)
(*                                                                         *)
(* A configuration document is a function from keys to values whose        *)
(* domain is the set of keys present ('k' in d  is  k \in DOMAIN d).       *)
(* Python lists are sequences (1-based here, the 0-based index appears in  *)
(* paths and messages), Python strings are TLA+ strings, except the role   *)
(* 'type' and the phase 'duration', which the code inspects character by   *)
(* character and which are sequences of one-character strings.             *)
(***************************************************************************)
EXTENDS Integers, Sequences, FiniteSets, TLC

VARIABLES config, issues, pc, calls, results, report, peer, dfs

vars == <<config, issues, pc, calls, results, report, peer, dfs>>

\* what validate() of this validator never touches: the report main() prints, a
\* second validator of the host process, the local state of a has_cycle call
others == <<report, peer, dfs>>

-----------------------------------------------------------------------------
(* Bounds of the model *)

MaxCalls == 2
MaxRoles == 2
MaxDepRoles == 3
MaxModelRoles == 3
MaxPhases == 3
MaxPolicyRoles == 2
MaxDurPhases == 2
MaxChannels == 2
MaxFitRoles == 2
MaxTeam == 20
MaxParRoles == 1
MaxNodes == 3

-----------------------------------------------------------------------------
(* Python values *)

None == "None"

Empty == [k \in {} |-> 0]

Digit == <<"0", "1", "2", "3", "4", "5", "6", "7", "8", "9">>

RECURSIVE StrNat(_)
StrNat(n) == IF n < 10 THEN Digit[n + 1] ELSE StrNat(n \div 10) \o Digit[(n % 10) + 1]

StrInt(n) == IF n < 0 THEN "-" \o StrNat(0 - n) ELSE StrNat(n)

RECURSIVE Join(_)
Join(cs) == IF cs = <<>> THEN "" ELSE Head(cs) \o Join(Tail(cs))

UpperCase == <<"A", "B", "C", "D", "E", "F", "G", "H", "I", "J", "K", "L", "M",
               "N", "O", "P", "Q", "R", "S", "T", "U", "V", "W", "X", "Y", "Z">>

LowerCase == <<"a", "b", "c", "d", "e", "f", "g", "h", "i", "j", "k", "l", "m",
               "n", "o", "p", "q", "r", "s", "t", "u", "v", "w", "x", "y", "z">>

LowerChar(c) ==
    IF \E i \in 1..26 : UpperCase[i] = c
    THEN LowerCase[CHOOSE i \in 1..26 : UpperCase[i] = c]
    ELSE c

lower(cs) == [i \in 1..Len(cs) |-> LowerChar(cs[i])]

\* key in s, for strings given as character sequences
Contains(key, s) ==
    \E k \in 0..(Len(s) - Len(key)) : \A j \in 1..Len(key) : s[k + j] = key[j]

\* name values carry their Python type: isinstance(name, str), truthiness
PyStr(s) == [type |-> "str", val |-> s]
PyInt(s) == [type |-> "int", val |-> s]
IsStr(v) == v.type = "str"
Truthy(v) == IF v.type = "str" THEN v.val # "" ELSE v.val # "0"

RECURSIVE Flatten(_)
Flatten(ss) == IF ss = <<>> THEN <<>> ELSE Head(ss) \o Flatten(Tail(ss))

-----------------------------------------------------------------------------
(* ValidationLevel, ValidationIssue *)

ERROR == "error"
WARNING == "warning"
INFO == "info"

ValidationIssue(level, category, message, suggestion, path) ==
    [level |-> level, category |-> category, message |-> message,
     suggestion |-> suggestion, path |-> path]

\* TeamValidator.__init__: self.role_models, in declaration order
role_models == <<
    <<<<"c", "e", "o">>, "opus">>,
    <<<<"c", "t", "o">>, "opus">>,
    <<<<"p", "r", "o", "d", "u", "c", "t", "-", "o", "w", "n", "e", "r">>, "opus">>,
    <<<<"t", "e", "c", "h", "-", "l", "e", "a", "d">>, "opus">>,
    <<<<"a", "r", "c", "h", "i", "t", "e", "c", "t">>, "sonnet">>,
    <<<<"d", "e", "v", "e", "l", "o", "p", "e", "r">>, "sonnet">>,
    <<<<"d", "e", "s", "i", "g", "n", "e", "r">>, "sonnet">>,
    <<<<"q", "a">>, "sonnet">>,
    <<<<"w", "r", "i", "t", "e", "r">>, "haiku">>,
    <<<<"m", "o", "n", "i", "t", "o", "r">>, "haiku">> >>

ValidModels == {"opus", "sonnet", "haiku"}

ValidBudgets == {"premium", "balanced", "economic"}

-----------------------------------------------------------------------------
(* _validate_structure *)

required_fields == <<"name", "roles", "workflow">>

MissingFieldIssue(field) ==
    ValidationIssue(ERROR, "structure", "Missing required field: " \o field,
                    "Add '" \o field \o "' to your configuration", field)

NameIssue ==
    ValidationIssue(ERROR, "structure", "Team name must be a non-empty string",
                    "Provide a descriptive team name", None)

_validate_structure(cfg) ==
    LET missing == SelectSeq(required_fields, LAMBDA f : f \notin DOMAIN cfg)
        bad == "name" \in DOMAIN cfg /\ (~Truthy(cfg.name) \/ ~IsStr(cfg.name))
    IN  [i \in 1..Len(missing) |-> MissingFieldIssue(missing[i])]
        \o (IF bad THEN <<NameIssue>> ELSE <<>>)

-----------------------------------------------------------------------------
(* _suggest_model, _validate_roles *)

\* a variant in which the last matching entry of the table wins
_suggest_model_LastMatch(role_type) ==
    LET hits == {k \in 1..Len(role_models) : Contains(role_models[k][1], lower(role_type))}
    IN  IF hits = {} THEN "sonnet"
        ELSE role_models[CHOOSE k \in hits : \A h \in hits : k >= h][2]

_suggest_model(role_type) ==
    LET hits == {k \in 1..Len(role_models) : Contains(role_models[k][1], lower(role_type))}
    IN  IF hits = {} THEN "sonnet"
        ELSE role_models[CHOOSE k \in hits : \A h \in hits : k <= h][2]

\* role.get('id'), role.get('id', i) as they print in an f-string
GetId(role) == IF "id" \in DOMAIN role THEN role.id ELSE None
GetIdOr(role, i) == IF "id" \in DOMAIN role THEN role.id ELSE StrInt(i)

RolePath(i) == "roles[" \o StrInt(i) \o "]"

\* the ids added to role_ids by the iterations before the one of roles[n]
SeenRoleIds(roles, n) == {roles[j].id : j \in {k \in 1..(n - 1) : "id" \in DOMAIN roles[k]}}

DuplicateIdTest(roles, n) == roles[n].id \in SeenRoleIds(roles, n)

RoleIdIssues(roles, n) ==
    LET role == roles[n]
        i == n - 1
    IN  IF "id" \notin DOMAIN role
        THEN <<ValidationIssue(ERROR, "roles",
                   "Role at index " \o StrInt(i) \o " missing 'id' field",
                   "Add unique identifier for the role", RolePath(i))>>
        ELSE IF DuplicateIdTest(roles, n)
             THEN <<ValidationIssue(ERROR, "roles", "Duplicate role ID: " \o role.id,
                        "Ensure all role IDs are unique", RolePath(i))>>
             ELSE <<>>

\* a variant whose list of models lacks haiku
InvalidModelTest_NoHaiku(model) == model \notin {"opus", "sonnet"}

\* model not in ['opus', 'sonnet', 'haiku']
InvalidModelTest(model) == model \notin ValidModels

RoleModelIssues(roles, n) ==
    LET role == roles[n]
        i == n - 1
    IN  IF "model" \notin DOMAIN role THEN <<>>
        ELSE
          LET model == role.model
              role_type == IF "type" \in DOMAIN role THEN role.type ELSE <<>>
              suggested_model == _suggest_model(role_type)
          IN  (IF InvalidModelTest(model)
               THEN <<ValidationIssue(ERROR, "roles",
                          "Invalid model '" \o model \o "' for role " \o GetIdOr(role, i),
                          "Use one of: opus, sonnet, haiku", RolePath(i) \o ".model")>>
               ELSE <<>>)
              \o
              (IF model # suggested_model
               THEN <<ValidationIssue(INFO, "optimization",
                          "Role '" \o GetId(role) \o "' uses " \o model \o ", but "
                              \o suggested_model \o " might be more cost-effective",
                          "Consider using " \o suggested_model \o " for "
                              \o Join(role_type) \o " roles",
                          RolePath(i) \o ".model")>>
               ELSE <<>>)

RoleResponsibilityIssues(roles, n) ==
    LET role == roles[n]
        i == n - 1
    IN  IF "responsibilities" \notin DOMAIN role \/ role.responsibilities = <<>>
        THEN <<ValidationIssue(WARNING, "roles",
                   "Role '" \o GetId(role) \o "' has no defined responsibilities",
                   "Add clear responsibilities for better task allocation",
                   RolePath(i) \o ".responsibilities")>>
        ELSE <<>>

\* a variant whose upper threshold is off by one
TeamSizeIssues_From15(team_size) ==
    IF team_size >= 15
    THEN <<ValidationIssue(WARNING, "roles",
               "Large team size (" \o StrInt(team_size) \o ") may cause coordination overhead",
               "Consider splitting into smaller sub-teams", "roles")>>
    ELSE IF team_size < 3
    THEN <<ValidationIssue(INFO, "roles",
               "Small team size (" \o StrInt(team_size) \o ") may limit parallelization",
               "Consider if additional roles would help", "roles")>>
    ELSE <<>>

TeamSizeIssues(team_size) ==
    IF team_size > 15
    THEN <<ValidationIssue(WARNING, "roles",
               "Large team size (" \o StrInt(team_size) \o ") may cause coordination overhead",
               "Consider splitting into smaller sub-teams", "roles")>>
    ELSE IF team_size < 3
    THEN <<ValidationIssue(INFO, "roles",
               "Small team size (" \o StrInt(team_size) \o ") may limit parallelization",
               "Consider if additional roles would help", "roles")>>
    ELSE <<>>

_validate_roles(cfg) ==
    IF "roles" \notin DOMAIN cfg THEN <<>>
    ELSE
      LET roles == cfg.roles
      IN  IF roles = <<>>
          THEN <<ValidationIssue(ERROR, "roles", "Team must have at least one role",
                     "Add role definitions to your team", None)>>
          ELSE Flatten([n \in 1..Len(roles) |->
                           RoleIdIssues(roles, n) \o RoleModelIssues(roles, n)
                               \o RoleResponsibilityIssues(roles, n)])
               \o TeamSizeIssues(Len(roles))

-----------------------------------------------------------------------------
(* _validate_workflow *)

PhasePath(i) == "workflow.phases[" \o StrInt(i) \o "]"

\* phase.get('name') as it prints in an f-string
GetName(phase) == IF "name" \in DOMAIN phase THEN phase.name ELSE None

\* phase_names when the dependencies of phases[n] are examined: the names added
\* by the earlier iterations, and the name of phases[n] itself, added just before
PhaseNamesAt(phases, n) == {phases[j].name : j \in {k \in 1..n : "name" \in DOMAIN phases[k]}}

PhaseNameIssues(phases, n) ==
    LET phase == phases[n]
        i == n - 1
    IN  IF "name" \notin DOMAIN phase
        THEN <<ValidationIssue(ERROR, "workflow",
                   "Phase at index " \o StrInt(i) \o " missing 'name'",
                   "Add name for the phase", PhasePath(i))>>
        ELSE IF phase.name \in PhaseNamesAt(phases, n - 1)
             THEN <<ValidationIssue(ERROR, "workflow", "Duplicate phase name: " \o phase.name,
                        "Ensure phase names are unique", PhasePath(i) \o ".name")>>
             ELSE <<>>

UndefinedDependencyIssue(phase, i, dep) ==
    ValidationIssue(ERROR, "workflow",
        "Phase '" \o GetName(phase) \o "' depends on undefined phase '" \o dep \o "'",
        "Ensure '" \o dep \o "' is defined before this phase",
        PhasePath(i) \o ".dependencies")

PhaseDependencyIssues(phases, n) ==
    LET phase == phases[n]
        names == PhaseNamesAt(phases, n)
    IN  IF "dependencies" \notin DOMAIN phase THEN <<>>
        ELSE LET deps == phase.dependencies
                 bad == SelectSeq(deps, LAMBDA dep : dep \notin names)
             IN  [k \in 1..Len(bad) |-> UndefinedDependencyIssue(phase, n - 1, bad[k])]

IsDigit(c) == \E d \in 1..10 : Digit[d] = c
DigitVal(c) == (CHOOSE d \in 1..10 : Digit[d] = c) - 1

RECURSIVE Strip(_)
Strip(cs) ==
    IF cs = <<>> THEN cs
    ELSE IF Head(cs) = " " THEN Strip(Tail(cs))
    ELSE IF cs[Len(cs)] = " " THEN Strip(SubSeq(cs, 1, Len(cs) - 1))
    ELSE cs

RECURSIVE DigitsVal(_, _)
DigitsVal(cs, acc) ==
    IF cs = <<>> THEN acc
    ELSE IF Head(cs) = "_" THEN DigitsVal(Tail(cs), acc)
    ELSE DigitsVal(Tail(cs), 10 * acc + DigitVal(Head(cs)))

\* int(s) for a str s: [ok |-> FALSE] stands for ValueError
ParseInt(cs) ==
    LET s == Strip(cs)
        signed == s # <<>> /\ s[1] \in {"+", "-"}
        body == IF signed THEN Tail(s) ELSE s
        wellFormed ==
            /\ body # <<>>
            /\ \A k \in 1..Len(body) :
                  \/ IsDigit(body[k])
                  \/ /\ body[k] = "_"
                     /\ 1 < k /\ k < Len(body)
                     /\ IsDigit(body[k - 1]) /\ IsDigit(body[k + 1])
        mag == DigitsVal(body, 0)
    IN  IF ~wellFormed THEN [ok |-> FALSE, val |-> 0]
        ELSE [ok |-> TRUE, val |-> IF signed /\ s[1] = "-" THEN 0 - mag ELSE mag]

\* what phases[n] adds to total_duration
PhaseDuration(phase) ==
    IF "duration" \notin DOMAIN phase THEN 0
    ELSE LET duration == phase.duration
         IN  IF IsStr(duration) /\ duration.val # <<>>
                  /\ duration.val[Len(duration.val)] = "%"
             THEN LET r == ParseInt(SubSeq(duration.val, 1, Len(duration.val) - 1))
                  IN  IF r.ok THEN r.val ELSE 0
             ELSE 0

RECURSIVE SumDurations(_, _)
SumDurations(phases, n) ==
    IF n = 0 THEN 0 ELSE SumDurations(phases, n - 1) + PhaseDuration(phases[n])

\* a variant that warns only below 100
DurationIssues_Under(total_duration) ==
    IF total_duration > 0 /\ total_duration < 100
    THEN <<ValidationIssue(WARNING, "workflow",
               "Phase durations sum to " \o StrInt(total_duration) \o "%, not 100%",
               "Adjust phase durations to sum to 100%", "workflow.phases")>>
    ELSE <<>>

DurationIssues(total_duration) ==
    IF total_duration > 0 /\ total_duration # 100
    THEN <<ValidationIssue(WARNING, "workflow",
               "Phase durations sum to " \o StrInt(total_duration) \o "%, not 100%",
               "Adjust phase durations to sum to 100%", "workflow.phases")>>
    ELSE <<>>

_validate_workflow(cfg) ==
    IF "workflow" \notin DOMAIN cfg THEN <<>>
    ELSE
      LET workflow == cfg.workflow
      IN  IF "phases" \notin DOMAIN workflow
          THEN <<ValidationIssue(WARNING, "workflow", "No workflow phases defined",
                     "Define phases for better task organization", "workflow.phases")>>
          ELSE LET phases == workflow.phases
               IN  Flatten([n \in 1..Len(phases) |->
                               PhaseNameIssues(phases, n) \o PhaseDependencyIssues(phases, n)])
                   \o DurationIssues(SumDurations(phases, Len(phases)))

-----------------------------------------------------------------------------
(* _validate_communication *)

ChannelFrequencyIssues(channels, n) ==
    LET channel == channels[n]
        i == n - 1
        shown == IF "name" \in DOMAIN channel THEN channel.name ELSE StrInt(i)
    IN  IF "frequency" \notin DOMAIN channel
        THEN <<ValidationIssue(INFO, "communication",
                   "Channel '" \o shown \o "' has no defined frequency",
                   "Specify communication frequency",
                   "communication.channels[" \o StrInt(i) \o "].frequency")>>
        ELSE <<>>

\* a variant that asks every channel to be synchronous
has_sync_All(channels) ==
    \A n \in 1..Len(channels) :
        "type" \in DOMAIN channels[n] /\ channels[n].type = "synchronous"

\* any(ch.get('type') == 'synchronous' for ch in channels)
has_sync(channels) ==
    \E n \in 1..Len(channels) :
        "type" \in DOMAIN channels[n] /\ channels[n].type = "synchronous"

_validate_communication(cfg) ==
    IF "communication" \notin DOMAIN cfg
    THEN <<ValidationIssue(INFO, "communication", "No communication protocols defined",
               "Consider defining communication channels and protocols", None)>>
    ELSE
      LET comm == cfg.communication
      IN  IF "channels" \notin DOMAIN comm THEN <<>>
          ELSE LET channels == comm.channels
               IN  (IF ~has_sync(channels)
                    THEN <<ValidationIssue(WARNING, "communication",
                               "No synchronous communication channel defined",
                               "Add at least one synchronous channel (e.g., daily standup)",
                               None)>>
                    ELSE <<>>)
                   \o Flatten([n \in 1..Len(channels) |-> ChannelFrequencyIssues(channels, n)])

-----------------------------------------------------------------------------
(* _validate_dependencies: the reports_to references, has_cycle *)

\* role_ids = {role['id'] for role in roles if 'id' in role}
DeclaredRoleIds(roles) == {roles[k].id : k \in {j \in 1..Len(roles) : "id" \in DOMAIN roles[j]}}

UnresolvedTest(supervisor, role_ids) == supervisor \notin role_ids

UndefinedSupervisorIssue(role, supervisor) ==
    ValidationIssue(ERROR, "dependencies",
        "Role '" \o role.id \o "' reports to undefined role '" \o supervisor \o "'",
        "Ensure '" \o supervisor \o "' is defined in roles",
        "roles." \o role.id \o ".reports_to")

\* the loop over roles from roles[n] on, acc being the issues it has added so far;
\* role['id'] in the message of a role without 'id' raises KeyError
RECURSIVE ReportsToLoop(_, _, _, _)
ReportsToLoop(roles, role_ids, n, acc) ==
    IF n > Len(roles) THEN [raised |-> FALSE, issues |-> acc]
    ELSE
      LET role == roles[n]
      IN  IF "reports_to" \in DOMAIN role /\ UnresolvedTest(role.reports_to, role_ids)
          THEN IF "id" \notin DOMAIN role
               THEN [raised |-> TRUE, issues |-> acc]
               ELSE ReportsToLoop(roles, role_ids, n + 1,
                                  Append(acc, UndefinedSupervisorIssue(role, role.reports_to)))
          ELSE ReportsToLoop(roles, role_ids, n + 1, acc)

HasBoth(role) == "id" \in DOMAIN role /\ "reports_to" \in DOMAIN role

\* reporting = {role['id']: role['reports_to'] for role in roles if ...}: the last
\* role of an id gives the value
reporting(roles) ==
    LET idx == {k \in 1..Len(roles) : HasBoth(roles[k])}
        keys == {roles[k].id : k \in idx}
    IN  [id \in keys |->
            roles[CHOOSE k \in idx : roles[k].id = id
                      /\ \A j \in idx : roles[j].id = id => j <= k].reports_to]

\* the keys of reporting in iteration order: the order of first insertion
RECURSIVE ReportingKeys(_, _)
ReportingKeys(roles, n) ==
    IF n = 0 THEN <<>>
    ELSE LET before == ReportingKeys(roles, n - 1)
         IN  IF HasBoth(roles[n]) /\ \A k \in 1..Len(before) : before[k] # roles[n].id
             THEN Append(before, roles[n].id)
             ELSE before

\* has_cycle.visit: st holds visited and rec_stack, ret is the value returned
RECURSIVE visit(_, _, _)
visit(graph, node, st) ==
    IF node \in st.rec_stack THEN [st EXCEPT !.ret = TRUE]
    ELSE IF node \in st.visited THEN [st EXCEPT !.ret = FALSE]
    ELSE
      LET entered == [st EXCEPT !.visited = @ \cup {node}, !.rec_stack = @ \cup {node}]
      IN  IF node \in DOMAIN graph
          THEN LET r == visit(graph, graph[node], entered)
               IN  IF r.ret THEN r
                   ELSE [r EXCEPT !.rec_stack = @ \ {node}, !.ret = FALSE]
          ELSE [entered EXCEPT !.rec_stack = @ \ {node}, !.ret = FALSE]

\* the loop 'for node in graph' of has_cycle, from keys[n] on
RECURSIVE CycleLoop(_, _, _, _)
CycleLoop(graph, keys, n, st) ==
    IF n > Len(keys) THEN FALSE
    ELSE IF keys[n] \in st.visited THEN CycleLoop(graph, keys, n + 1, st)
    ELSE LET r == visit(graph, keys[n], st)
         IN  IF r.ret THEN TRUE ELSE CycleLoop(graph, keys, n + 1, r)

has_cycle(graph, keys) ==
    CycleLoop(graph, keys, 1, [visited |-> {}, rec_stack |-> {}, ret |-> FALSE])

CycleIssue ==
    ValidationIssue(ERROR, "dependencies", "Circular reporting dependency detected",
                    "Remove circular dependencies in reporting structure", None)

\* [raised, issues]: raised when the rule ends in KeyError, issues what it added
_validate_dependencies(cfg) ==
    IF "roles" \notin DOMAIN cfg THEN [raised |-> FALSE, issues |-> <<>>]
    ELSE
      LET roles == cfg.roles
          refs == ReportsToLoop(roles, DeclaredRoleIds(roles), 1, <<>>)
      IN  IF refs.raised THEN refs
          ELSE [raised |-> FALSE,
                issues |-> refs.issues \o
                    (IF has_cycle(reporting(roles), ReportingKeys(roles, Len(roles)))
                     THEN <<CycleIssue>> ELSE <<>>)]

-----------------------------------------------------------------------------
(* _validate_resources *)

\* a variant that reports an unknown budget as blocking
UnknownBudgetIssue_Blocking(budget) ==
    ValidationIssue(ERROR, "resources", "Unknown token budget '" \o budget \o "'",
                    "Use one of: premium, balanced, economic", "token_budget")

UnknownBudgetIssue(budget) ==
    ValidationIssue(WARNING, "resources", "Unknown token budget '" \o budget \o "'",
                    "Use one of: premium, balanced, economic", "token_budget")

_validate_resources(cfg) ==
    (IF "token_budget" \in DOMAIN cfg /\ cfg.token_budget \notin ValidBudgets
     THEN <<UnknownBudgetIssue(cfg.token_budget)>>
     ELSE <<>>)
    \o
    (IF "roles" \in DOMAIN cfg /\ "token_budget" \in DOMAIN cfg
     THEN LET budget == cfg.token_budget
              roles == cfg.roles
              opus_count == Cardinality({k \in 1..Len(roles) :
                                "model" \in DOMAIN roles[k] /\ roles[k].model = "opus"})
          IN  IF budget = "economic" /\ opus_count > 1
              THEN <<ValidationIssue(WARNING, "resources",
                         "Economic budget with " \o StrInt(opus_count)
                             \o " Opus agents may be expensive",
                         "Consider using more Sonnet/Haiku models", "roles")>>
              ELSE IF budget = "premium" /\ opus_count < 2
              THEN <<ValidationIssue(INFO, "resources",
                         "Premium budget allows for more Opus agents if needed",
                         "Consider using Opus for critical decision-making roles", None)>>
              ELSE <<>>
     ELSE <<>>)

-----------------------------------------------------------------------------
(* _validate_best_practices *)

\* 'parallel' in str(phase): the phases of the model carry the marker as a key
\* named parallel; no name, dependency or duration of the model contains the word
MentionsParallel(phase) == "parallel" \in DOMAIN phase

_validate_best_practices(cfg) ==
    (IF "quality_gates" \notin DOMAIN cfg
     THEN <<ValidationIssue(INFO, "best-practices", "No quality gates defined",
                "Consider adding quality checkpoints", None)>>
     ELSE <<>>)
    \o
    (IF "error_recovery" \notin DOMAIN cfg
     THEN <<ValidationIssue(WARNING, "best-practices", "No error recovery strategy defined",
                "Add error recovery mechanisms for resilience", None)>>
     ELSE <<>>)
    \o
    (IF "success_metrics" \notin DOMAIN cfg
     THEN <<ValidationIssue(INFO, "best-practices", "No success metrics defined",
                "Define measurable success criteria", None)>>
     ELSE <<>>)
    \o
    (IF "workflow" \in DOMAIN cfg /\ "phases" \in DOMAIN cfg.workflow
     THEN LET phases == cfg.workflow.phases
              has_parallel == \E n \in 1..Len(phases) : MentionsParallel(phases[n])
          IN  IF ~has_parallel /\ Len(phases) > 3
              THEN <<ValidationIssue(INFO, "optimization",
                         "No parallel phases detected in workflow",
                         "Consider parallelizing independent tasks for faster completion",
                         None)>>
              ELSE <<>>
     ELSE <<>>)

-----------------------------------------------------------------------------
(* validate(): one step per statement of its body *)

\* a variant that lets a WARNING block as well
HasErrors_AnyWarning(iss) == \E k \in 1..Len(iss) : iss[k].level \in {ERROR, WARNING}

\* any(issue.level == ValidationLevel.ERROR for issue in self.issues)
HasErrors(iss) == \E k \in 1..Len(iss) : iss[k].level = ERROR

\* a variant that keeps the list of the previous call
ResetIssues_Kept == issues

\* self.issues = []
ResetIssues == <<>>

\* line 63: self.issues = []
Validate_Begin ==
    /\ pc \in {"idle", "done", "raised"}
    /\ calls < MaxCalls
    /\ calls' = calls + 1
    /\ issues' = ResetIssues
    /\ pc' = "structure"
    /\ UNCHANGED <<config, results>>
    /\ UNCHANGED others

Validate_Structure ==
    /\ pc = "structure"
    /\ issues' = issues \o _validate_structure(config)
    /\ pc' = "roles"
    /\ UNCHANGED <<config, calls, results>>
    /\ UNCHANGED others

Validate_Roles ==
    /\ pc = "roles"
    /\ issues' = issues \o _validate_roles(config)
    /\ pc' = "workflow"
    /\ UNCHANGED <<config, calls, results>>
    /\ UNCHANGED others

Validate_Workflow ==
    /\ pc = "workflow"
    /\ issues' = issues \o _validate_workflow(config)
    /\ pc' = "communication"
    /\ UNCHANGED <<config, calls, results>>
    /\ UNCHANGED others

Validate_Communication ==
    /\ pc = "communication"
    /\ issues' = issues \o _validate_communication(config)
    /\ pc' = "dependencies"
    /\ UNCHANGED <<config, calls, results>>
    /\ UNCHANGED others

\* a KeyError leaves validate(): nothing is returned, self.issues keeps what was added
Validate_Dependencies ==
    /\ pc = "dependencies"
    /\ LET r == _validate_dependencies(config)
       IN  /\ issues' = issues \o r.issues
           /\ pc' = IF r.raised THEN "raised" ELSE "resources"
           /\ results' = IF r.raised
                         THEN Append(results, [outcome |-> "KeyError"])
                         ELSE results
    /\ UNCHANGED <<config, calls>>
    /\ UNCHANGED others

Validate_Resources ==
    /\ pc = "resources"
    /\ issues' = issues \o _validate_resources(config)
    /\ pc' = "best_practices"
    /\ UNCHANGED <<config, calls, results>>
    /\ UNCHANGED others

Validate_BestPractices ==
    /\ pc = "best_practices"
    /\ issues' = issues \o _validate_best_practices(config)
    /\ pc' = "return"
    /\ UNCHANGED <<config, calls, results>>
    /\ UNCHANGED others

\* lines 75-76: return not has_errors, self.issues
Validate_Return ==
    /\ pc = "return"
    /\ results' = Append(results, [outcome |-> "returned", passed |-> ~HasErrors(issues),
                                   issues |-> issues])
    /\ pc' = "done"
    /\ UNCHANGED <<config, issues, calls>>
    /\ UNCHANGED others

-----------------------------------------------------------------------------
(* generate_optimization_report; a TLA+ string holds ASCII only, so each     *)
(* other character of the report is written as its code point                *)

RECURSIVE Repeat(_, _)
Repeat(s, n) == IF n = 0 THEN "" ELSE s \o Repeat(s, n - 1)

SelectLevel(iss, level) == SelectSeq(iss, LAMBDA i : i.level = level)

\* `if issue.suggestion:`, `if issue.path:` on a string or None
Given(s) == s # None /\ s # ""

\* the lines of one issue; the INFO section prints no location
IssueLines(issue, withPath) ==
    <<"\n  [" \o issue.category \o "] " \o issue.message>>
    \o (IF Given(issue.suggestion) THEN <<"    <U+1F4A1> " \o issue.suggestion>> ELSE <<>>)
    \o (IF withPath /\ Given(issue.path)
        THEN <<"    <U+1F4CD> Location: " \o issue.path>> ELSE <<>>)

SectionLines(title, iss, withPath) ==
    IF iss = <<>> THEN <<>>
    ELSE <<title>> \o Flatten([k \in 1..Len(iss) |-> IssueLines(iss[k], withPath)])

FailedLine == "<U+274C> Validation FAILED - Please fix errors before proceeding"
WarningsLine ==
    "<U+26A0><U+FE0F>  Validation PASSED with warnings - Consider addressing warnings"
PassedLine == "<U+2705> Validation PASSED - Configuration is ready to use"

\* a variant whose verdict counts suggestions as warnings
VerdictLine_InfoWarns(errors, warnings, info) ==
    IF errors # <<>> THEN FailedLine
    ELSE IF warnings # <<>> \/ info # <<>> THEN WarningsLine
    ELSE PassedLine

VerdictLine(errors, warnings, info) ==
    IF errors # <<>> THEN FailedLine
    ELSE IF warnings # <<>> THEN WarningsLine
    ELSE PassedLine

\* the list `report` before "\n".join
generate_optimization_report(iss) ==
    LET errors == SelectLevel(iss, ERROR)
        warnings == SelectLevel(iss, WARNING)
        info == SelectLevel(iss, INFO)
    IN  <<"\n" \o Repeat("=", 60), "TEAM CONFIGURATION VALIDATION REPORT",
          Repeat("=", 60) \o "\n">>
        \o <<"<U+1F4CA> Summary:",
             "  <U+2022> Errors: " \o StrInt(Len(errors)),
             "  <U+2022> Warnings: " \o StrInt(Len(warnings)),
             "  <U+2022> Info: " \o StrInt(Len(info)),
             "">>
        \o SectionLines("<U+274C> ERRORS (must fix):", errors, TRUE)
        \o SectionLines("\n<U+26A0><U+FE0F>  WARNINGS (should fix):", warnings, TRUE)
        \o SectionLines("\n<U+2139><U+FE0F>  INFO (suggestions):", info, FALSE)
        \o <<"\n" \o Repeat("-", 60), VerdictLine(errors, warnings, info)>>

\* main: report = generate_optimization_report(issues); print(report)
GenerateReport ==
    /\ pc = "done"
    /\ report' = generate_optimization_report(results[Len(results)].issues)
    /\ pc' = "reported"
    /\ UNCHANGED <<config, issues, calls, results, peer, dfs>>

-----------------------------------------------------------------------------
(* a second TeamValidator, constructed on its own document, whose validate() *)
(* runs in another thread of the host process                                *)

\* a variant in which the accumulator is one list shared by all validators
PeerAccumulator_Shared == issues

\* self.issues of the second validator: an attribute of the instance
PeerAccumulator == peer.issues

PeerRule(rule, next) ==
    [peer EXCEPT !.issues = PeerAccumulator \o rule, !.pc = next]

Peer_Step ==
    /\ peer.pc \notin {"absent", "done", "raised"}
    /\ peer' =
         CASE peer.pc = "idle" -> [peer EXCEPT !.issues = <<>>, !.pc = "structure"]
           [] peer.pc = "structure" -> PeerRule(_validate_structure(peer.config), "roles")
           [] peer.pc = "roles" -> PeerRule(_validate_roles(peer.config), "workflow")
           [] peer.pc = "workflow" ->
                  PeerRule(_validate_workflow(peer.config), "communication")
           [] peer.pc = "communication" ->
                  PeerRule(_validate_communication(peer.config), "dependencies")
           [] peer.pc = "dependencies" ->
                  LET r == _validate_dependencies(peer.config)
                  IN  IF r.raised
                      THEN [peer EXCEPT !.issues = PeerAccumulator \o r.issues,
                                        !.pc = "raised",
                                        !.result = [outcome |-> "KeyError"]]
                      ELSE PeerRule(r.issues, "resources")
           [] peer.pc = "resources" ->
                  PeerRule(_validate_resources(peer.config), "best_practices")
           [] peer.pc = "best_practices" ->
                  PeerRule(_validate_best_practices(peer.config), "return")
           [] peer.pc = "return" ->
                  [peer EXCEPT !.result = [outcome |-> "returned",
                                           passed |-> ~HasErrors(PeerAccumulator),
                                           issues |-> PeerAccumulator],
                               !.pc = "done"]
    /\ UNCHANGED <<config, issues, pc, calls, results, report, dfs>>

\* has_cycle is not running
NoDfs == [pc |-> "off"]

-----------------------------------------------------------------------------
(* has_cycle, one step per call of visit, per return from it and per turn   *)
(* of the loop 'for node in graph'. dfs.frames is the chain of visit calls *)
(* in progress, innermost last; dfs.expanded counts, per node, how often   *)
(* visit went past its two tests and expanded the node.                    *)

Range(s) == {s[k] : k \in 1..Len(s)}

Pop(s) == SubSeq(s, 1, Len(s) - 1)

Top(s) == s[Len(s)]

\* a variant that forgets the visited set and looks at the stack only
AlreadyVisited_StackOnly(node) == node \in dfs.rec_stack

\* `if node in visited: return False`
AlreadyVisited(node) == node \in dfs.visited

\* has_cycle(reporting): visited = set(); rec_stack = set()
Dfs_Start ==
    /\ dfs = NoDfs
    /\ "roles" \in DOMAIN config
    /\ dfs' = [pc |-> "loop", graph |-> reporting(config.roles),
               keys |-> ReportingKeys(config.roles, Len(config.roles)), n |-> 1,
               visited |-> {}, rec_stack |-> {}, frames |-> <<>>, arg |-> None,
               ret |-> FALSE, result |-> FALSE,
               expanded |-> [x \in {} |-> 0], steps |-> 0]
    /\ UNCHANGED <<config, issues, pc, calls, results, report, peer>>

\* for node in graph: if node not in visited: if visit(node): return True
Dfs_Loop ==
    /\ dfs.pc = "loop"
    /\ dfs' =
         IF dfs.n > Len(dfs.keys)
         THEN [dfs EXCEPT !.pc = "end", !.result = FALSE, !.steps = @ + 1]
         ELSE IF dfs.keys[dfs.n] \in dfs.visited
         THEN [dfs EXCEPT !.n = @ + 1, !.steps = @ + 1]
         ELSE [dfs EXCEPT !.pc = "call", !.arg = dfs.keys[dfs.n], !.steps = @ + 1]
    /\ UNCHANGED <<config, issues, pc, calls, results, report, peer>>

\* visit(node) up to rec_stack.add(node)
Dfs_Enter ==
    /\ dfs.pc = "call"
    /\ LET node == dfs.arg
       IN  dfs' =
             IF node \in dfs.rec_stack
             THEN [dfs EXCEPT !.pc = "ret", !.ret = TRUE, !.arg = None, !.steps = @ + 1]
             ELSE IF AlreadyVisited(node)
             THEN [dfs EXCEPT !.pc = "ret", !.ret = FALSE, !.arg = None, !.steps = @ + 1]
             ELSE [dfs EXCEPT !.pc = "body", !.arg = None,
                              !.visited = @ \cup {node},
                              !.rec_stack = @ \cup {node},
                              !.frames = Append(@, node),
                              !.expanded = IF node \in DOMAIN @
                                           THEN [@ EXCEPT ![node] = @ + 1]
                                           ELSE (node :> 1) @@ @,
                              !.steps = @ + 1]
    /\ UNCHANGED <<config, issues, pc, calls, results, report, peer>>

\* `if node in graph:` calls visit(graph[node]); otherwise the node is finished
Dfs_Body ==
    /\ dfs.pc = "body"
    /\ LET node == Top(dfs.frames)
       IN  dfs' =
             IF node \in DOMAIN dfs.graph
             THEN [dfs EXCEPT !.pc = "call", !.arg = dfs.graph[node], !.steps = @ + 1]
             ELSE [dfs EXCEPT !.pc = "ret", !.ret = FALSE,
                              !.rec_stack = @ \ {node},
                              !.frames = Pop(@), !.steps = @ + 1]
    /\ UNCHANGED <<config, issues, pc, calls, results, report, peer>>

\* a visit has returned dfs.ret, to the visit that called it or to the loop
Dfs_Return ==
    /\ dfs.pc = "ret"
    /\ dfs' =
         IF dfs.frames = <<>>
         THEN IF dfs.ret
              THEN [dfs EXCEPT !.pc = "end", !.result = TRUE, !.steps = @ + 1]
              ELSE [dfs EXCEPT !.pc = "loop", !.n = @ + 1, !.steps = @ + 1]
         ELSE IF dfs.ret
              THEN [dfs EXCEPT !.frames = Pop(@), !.steps = @ + 1]
              ELSE [dfs EXCEPT !.rec_stack = @ \ {Top(dfs.frames)},
                               !.frames = Pop(@), !.steps = @ + 1]
    /\ UNCHANGED <<config, issues, pc, calls, results, report, peer>>

NextCycle == Dfs_Start \/ Dfs_Loop \/ Dfs_Enter \/ Dfs_Body \/ Dfs_Return

Next ==
    \/ Validate_Begin
    \/ Validate_Structure
    \/ Validate_Roles
    \/ Validate_Workflow
    \/ Validate_Communication
    \/ Validate_Dependencies
    \/ Validate_Resources
    \/ Validate_BestPractices
    \/ Validate_Return

-----------------------------------------------------------------------------
(* The documents the validator is constructed on: TeamValidator.__init__ loads  *)
(* the configuration once; every family below is a set of parsed documents.     *)

Opt(k, S) == {Empty} \cup {k :> v : v \in S}
Req(k, S) == {k :> v : v \in S}
Merge(A, B) == {a @@ b : a \in A, b \in B}

SeqsUpTo(S, n) == UNION {[1..k -> S] : k \in 0..n}
SeqsFromTo(S, m, n) == UNION {[1..k -> S] : k \in m..n}

TypeCEO == <<"C", "E", "O">>
TypeWriter == <<"w", "r", "i", "t", "e", "r">>
TypeOps == <<"o", "p", "s">>

NoPhases == "phases" :> <<>>

\* partial documents: any of name, roles, workflow absent, roles lacking fields
GenRoles ==
    Merge(Opt("id", {"a"}), Merge(Opt("reports_to", {"a", "z"}), Opt("model", {"gpt"})))

GenWorkflows ==
    {Empty, NoPhases, "phases" :> <<[dependencies |-> <<"later">>], [name |-> "later"]>>}

GenDocs ==
    Merge(Opt("name", {PyStr("T"), PyStr(""), PyInt("7")}),
          Merge(Opt("roles", SeqsUpTo(GenRoles, MaxRoles)), Opt("workflow", GenWorkflows)))

\* complete documents whose roles vary in id and reports_to
DepRoles == Merge(Opt("id", {"a", "b", "c"}), Opt("reports_to", {"a", "b", "c", "z"}))

DepDocs ==
    Merge(Req("name", {PyStr("T")}),
          Merge(Req("roles", SeqsFromTo(DepRoles, 1, MaxDepRoles)), Req("workflow", {NoPhases})))

\* complete documents whose roles vary in id and model
ModelRoles == Merge(Opt("id", {"a"}), Opt("model", {"haiku", "gpt", "claude"}))

ModelDocs ==
    Merge(Req("name", {PyStr("T")}),
          Merge(Opt("roles", SeqsUpTo(ModelRoles, MaxModelRoles)), Req("workflow", {NoPhases})))

\* complete documents whose phases vary in name and dependencies
WfPhases ==
    Merge(Opt("name", {"p", "q"}),
          Opt("dependencies", {<<>>, <<"p">>, <<"q">>, <<"x">>, <<"q", "p">>, <<"q", "q">>}))

WfDocs ==
    Merge(Req("name", {PyStr("T")}),
          Merge(Req("roles", {<<[id |-> "a"]>>}),
                Req("workflow", Req("phases", SeqsUpTo(WfPhases, MaxPhases)))))

\* documents without structural or relational defect in their roles, varying in
\* the fields the policy rules read
Letter == <<"a", "b", "c", "d">>

PolicyRoleBodies ==
    Merge(Req("model", {"opus", "haiku"}),
          Merge(Opt("type", {TypeCEO, TypeWriter}), Opt("responsibilities", {<<"lead">>})))

PolicyRoleLists ==
    UNION {{[k \in 1..n |-> ("id" :> Letter[k]) @@ b[k]] : b \in [1..n -> PolicyRoleBodies]}
           : n \in 1..MaxPolicyRoles}

Budgets == {"premium", "economic", "gold"}

PolicyDocsA ==
    Merge(Req("name", {PyStr("T")}),
          Merge(Req("roles", PolicyRoleLists),
                Merge(Req("workflow", {NoPhases}), Opt("token_budget", Budgets))))

Pct(a, b) == PyStr(<<a, b, "%">>)

PolicyWorkflows ==
    {Empty, NoPhases,
     "phases" :> <<[name |-> "design", duration |-> Pct("4", "0")],
                   [name |-> "build", duration |-> Pct("4", "0"),
                    dependencies |-> <<"design">>]>>,
     "phases" :> <<[name |-> "p1"], [name |-> "p2", dependencies |-> <<"p1">>],
                   [name |-> "p3", dependencies |-> <<"p1", "p2">>], [name |-> "p4"]>>,
     "phases" :> <<[name |-> "p1"], [name |-> "p2", parallel |-> TRUE],
                   [name |-> "p3"], [name |-> "p4", dependencies |-> <<"p5">>]>>}

PolicyComms ==
    {Empty, "channels" :> <<>>,
     "channels" :> <<[type |-> "asynchronous", name |-> "mail"]>>,
     "channels" :> <<[type |-> "synchronous", frequency |-> "daily"], [name |-> "chat"]>>}

PolicyFlags ==
    Merge(Opt("quality_gates", {TRUE}),
          Merge(Opt("error_recovery", {TRUE}), Opt("success_metrics", {TRUE})))

PolicyTeam ==
    <<[id |-> "a", model |-> "opus", type |-> TypeCEO, responsibilities |-> <<"lead">>],
      [id |-> "b", model |-> "opus", type |-> TypeOps, reports_to |-> "a"]>>

PolicyDocsB ==
    Merge(Req("name", {PyStr("T")}),
          Merge(Req("roles", {PolicyTeam}),
                Merge(Req("workflow", PolicyWorkflows),
                      Merge(Opt("communication", PolicyComms),
                            Merge(PolicyFlags, Opt("token_budget", {"economic", "gold"}))))))

\* a team of n roles, each but the first reporting to the one before it
Chain(n) ==
    [k \in 1..n |->
        IF k = 1 THEN [id |-> "r1", model |-> "sonnet", responsibilities |-> <<"x">>]
        ELSE [id |-> "r" \o StrInt(k), model |-> "sonnet", responsibilities |-> <<"x">>,
              reports_to |-> "r" \o StrInt(k - 1)]]

PolicyDocsC ==
    Merge(Req("name", {PyStr("T")}),
          Merge(Req("roles", {Chain(n) : n \in {3, 15, 16, 20}}),
                Merge(Req("workflow", {NoPhases}), Opt("token_budget", Budgets))))

PolicyDocs == PolicyDocsA \cup PolicyDocsB \cup PolicyDocsC

\* complete documents whose phases vary in duration
DurValues ==
    {PyStr(<<"4", "0", "%">>), PyStr(<<"6", "0", "%">>), PyStr(<<"1", "5", "0", "%">>),
     PyStr(<<"-", "5", "0", "%">>), PyStr(<<"0", "%">>), PyStr(<<" ", "7", " ", "%">>),
     PyStr(<<"1", "_", "0", "%">>), PyStr(<<"x", "%">>), PyStr(<<"%">>),
     PyStr(<<"4", "0">>), PyInt(<<"4", "0">>)}

DurDocs ==
    Merge(Req("name", {PyStr("T")}),
          Merge(Req("roles", {<<[id |-> "a"]>>}),
                Req("workflow", Req("phases",
                    SeqsUpTo(Opt("duration", DurValues), MaxDurPhases)))))

\* complete documents whose communication block varies
CommChannels ==
    Merge(Opt("type", {"synchronous", "asynchronous"}),
          Merge(Opt("frequency", {"daily"}), Opt("name", {"standup"})))

CommDocs ==
    Merge(Req("name", {PyStr("T")}),
          Merge(Req("roles", {<<[id |-> "a"]>>}),
                Merge(Req("workflow", {NoPhases}),
                      Opt("communication",
                          Opt("channels", SeqsUpTo(CommChannels, MaxChannels))))))

\* documents from flawless to failing, for the report
CleanChannel == <<[type |-> "synchronous", frequency |-> "daily", name |-> "standup"]>>

ReportDocs ==
    Merge(Req("name", {PyStr("T")}),
          Merge(Req("roles", {<<>>, Chain(2), Chain(3), Chain(16)}),
                Merge(Req("workflow", {NoPhases}),
                      Merge(Opt("communication", Req("channels", {CleanChannel})),
                            Merge(PolicyFlags, Opt("token_budget", {"premium", "gold"}))))))

\* complete documents whose roles vary in type and model
TypeMonitorCeo == <<"M", "o", "n", "i", "t", "o", "r", "-", "C", "E", "O">>

FitRoles ==
    Merge(Req("id", {"a"}),
          Merge(Opt("model", {"opus", "sonnet"}),
                Opt("type", {TypeOps, TypeMonitorCeo})))

FitDocs ==
    Merge(Req("name", {PyStr("T")}),
          Merge(Req("roles", SeqsFromTo(FitRoles, 1, MaxFitRoles)),
                Req("workflow", {NoPhases})))

\* complete documents with teams of every size from none to MaxTeam
SizeDocs ==
    Merge(Req("name", {PyStr("T")}),
          Merge(Req("roles", {Chain(n) : n \in 0..MaxTeam}),
                Merge(Req("workflow", {NoPhases}), Opt("token_budget", Budgets))))

\* documents for two validators running side by side
ParRoles == Merge(Opt("id", {"a"}), Opt("reports_to", {"z"}))

ParDocs ==
    Merge(Req("name", {PyStr("T")}),
          Merge(Opt("roles", SeqsUpTo(ParRoles, MaxParRoles)), Opt("workflow", {NoPhases})))

\* complete documents whose reporting map has the first k letters as keys, in
\* that order, each reporting to a letter or to the undeclared z
CycleRoles(k) ==
    {[n \in 1..k |-> [id |-> Letter[n], reports_to |-> f[n]]] :
        f \in [1..k -> {Letter[j] : j \in 1..MaxNodes} \cup {"z"}]}

CycleDocs ==
    Merge(Req("name", {PyStr("T")}),
          Merge(Req("roles", UNION {CycleRoles(k) : k \in 0..MaxNodes}),
                Req("workflow", {NoPhases})))

NoReport == <<>>
NoPeer == [pc |-> "absent"]

\* nothing printed, no second validator, no has_cycle call under way
OthersIdle == report = NoReport /\ peer = NoPeer /\ dfs = NoDfs

Init ==
    /\ config \in GenDocs
    /\ issues = <<>>
    /\ pc = "idle"
    /\ calls = 0
    /\ results = <<>>
    /\ OthersIdle

InitDeps ==
    /\ config \in DepDocs
    /\ issues = <<>>
    /\ pc = "idle"
    /\ calls = 0
    /\ results = <<>>
    /\ OthersIdle

InitModels ==
    /\ config \in ModelDocs
    /\ issues = <<>>
    /\ pc = "idle"
    /\ calls = 0
    /\ results = <<>>
    /\ OthersIdle

InitWorkflow ==
    /\ config \in WfDocs
    /\ issues = <<>>
    /\ pc = "idle"
    /\ calls = 0
    /\ results = <<>>
    /\ OthersIdle

InitPolicy ==
    /\ config \in PolicyDocs
    /\ issues = <<>>
    /\ pc = "idle"
    /\ calls = 0
    /\ results = <<>>
    /\ OthersIdle

InitDurations ==
    /\ config \in DurDocs
    /\ issues = <<>>
    /\ pc = "idle"
    /\ calls = 0
    /\ results = <<>>
    /\ OthersIdle

InitComm ==
    /\ config \in CommDocs
    /\ issues = <<>>
    /\ pc = "idle"
    /\ calls = 0
    /\ results = <<>>
    /\ OthersIdle

Spec == Init /\ [][Next]_vars

SpecComm == InitComm /\ [][Next]_vars

InitCycle ==
    /\ config \in CycleDocs
    /\ issues = <<>>
    /\ pc = "idle"
    /\ calls = 0
    /\ results = <<>>
    /\ OthersIdle

\* a call that is not blocked goes on: the steps of has_cycle wait for nothing
SpecCycle == InitCycle /\ [][NextCycle]_vars /\ WF_vars(NextCycle)

InitPar ==
    /\ config \in ParDocs
    /\ issues = <<>>
    /\ pc = "idle"
    /\ calls = 0
    /\ results = <<>>
    /\ report = NoReport
    /\ dfs = NoDfs
    /\ \E d \in ParDocs :
           peer = [pc |-> "idle", config |-> d, issues |-> <<>>,
                   result |-> [outcome |-> "none"]]

NextPar == Next \/ Peer_Step

SpecPar == InitPar /\ [][NextPar]_vars

InitSize ==
    /\ config \in SizeDocs
    /\ issues = <<>>
    /\ pc = "idle"
    /\ calls = 0
    /\ results = <<>>
    /\ OthersIdle

SpecSize == InitSize /\ [][Next]_vars

InitFit ==
    /\ config \in FitDocs
    /\ issues = <<>>
    /\ pc = "idle"
    /\ calls = 0
    /\ results = <<>>
    /\ OthersIdle

SpecFit == InitFit /\ [][Next]_vars

InitReport ==
    /\ config \in ReportDocs
    /\ issues = <<>>
    /\ pc = "idle"
    /\ calls = 0
    /\ results = <<>>
    /\ OthersIdle

NextReport == Next \/ GenerateReport

SpecReport == InitReport /\ [][NextReport]_vars

SpecDurations == InitDurations /\ [][Next]_vars

SpecModels == InitModels /\ [][Next]_vars

SpecWorkflow == InitWorkflow /\ [][Next]_vars

SpecPolicy == InitPolicy /\ [][Next]_vars

SpecDeps == InitDeps /\ [][Next]_vars

-----------------------------------------------------------------------------
(* Vocabulary of the properties *)

Finished == pc \in {"done", "raised"}

Last == results[Len(results)]

\* the rule has added its issues in the current call
RolesRuleRan ==
    pc \in {"workflow", "communication", "dependencies", "resources", "best_practices",
            "return", "done", "raised"}

WorkflowRuleRan == RolesRuleRan /\ pc # "workflow"

Count(iss, P(_)) == Cardinality({k \in 1..Len(iss) : P(iss[k])})

Roles == IF "roles" \in DOMAIN config THEN config.roles ELSE <<>>

Phases ==
    IF "workflow" \in DOMAIN config /\ "phases" \in DOMAIN config.workflow
    THEN config.workflow.phases ELSE <<>>

AllHaveIds(roles) == \A n \in 1..Len(roles) : "id" \in DOMAIN roles[n]

UniqueIds(roles) ==
    \A m, n \in 1..Len(roles) :
        ("id" \in DOMAIN roles[m] /\ "id" \in DOMAIN roles[n] /\ roles[m].id = roles[n].id)
            => m = n

\* the supervisor of the role named id, "" when there is none (ids being unique)
Supervisor(roles, id) ==
    IF \E n \in 1..Len(roles) : HasBoth(roles[n]) /\ roles[n].id = id
    THEN roles[CHOOSE n \in 1..Len(roles) : HasBoth(roles[n]) /\ roles[n].id = id].reports_to
    ELSE ""

RECURSIVE Up(_, _, _)
Up(roles, id, k) == IF k = 0 \/ id = "" THEN id ELSE Up(roles, Supervisor(roles, id), k - 1)

\* the reports_to relation returns to id after exactly k steps
CycleThrough(roles, id, k) == id # "" /\ Up(roles, id, k) = id

HasCycleOfLength(roles, k) ==
    \E n \in 1..Len(roles) :
        /\ "id" \in DOMAIN roles[n]
        /\ CycleThrough(roles, roles[n].id, k)
        /\ \A j \in 1..(k - 1) : ~CycleThrough(roles, roles[n].id, j)

HasLongCycle(roles) == \E k \in 2..Len(roles) : HasCycleOfLength(roles, k)

Acyclic(roles) == \A k \in 1..Len(roles) : ~HasCycleOfLength(roles, k)

IsCycleIssue(i) ==
    i.level = ERROR /\ i.category = "dependencies"
        /\ i.message = "Circular reporting dependency detected"

-----------------------------------------------------------------------------
(* C1: in every result validate() returns, passed is true exactly when no  *)
(* issue of the returned sequence has level ERROR; WARNING and INFO issues *)
(* never make it false.                                                    *)

C1_PassedIffNoError ==
    \A c \in 1..Len(results) :
        results[c].outcome = "returned" =>
            /\ results[c].passed <=>
                   (\A k \in 1..Len(results[c].issues) : results[c].issues[k].level # ERROR)
            /\ \A k \in 1..Len(results[c].issues) :
                   results[c].issues[k].level \in {ERROR, WARNING, INFO}

C1_Witness ==
    /\ pc = "done"
    /\ Last.passed
    /\ \E k \in 1..Len(Last.issues) : Last.issues[k].level = WARNING
    /\ \E k \in 1..Len(Last.issues) : Last.issues[k].level = INFO

(* C2: validate() completes and returns on every partial document; it never *)
(* ends in an exception.                                                    *)

C2_NeverRaises == pc # "raised"

IsMissingIssue(i, key) == i.level = ERROR /\ i.category = "structure" /\ i.path = key

(* C5: when name, roles or workflow is absent, the finished call has added  *)
(* exactly one 'structure' ERROR per absent key, with the key as path, and  *)
(* has returned passed = false.                                             *)

C5_MissingKeysReported ==
    (Finished /\ \E key \in {"name", "roles", "workflow"} : key \notin DOMAIN config)
        => /\ \A key \in {"name", "roles", "workflow"} :
                 key \notin DOMAIN config =>
                     Count(issues, LAMBDA i : IsMissingIssue(i, key)) = 1
           /\ pc = "done"
           /\ Last.outcome = "returned"
           /\ Last.passed = FALSE

(* C9: every later call of validate() on the same validator ends as the    *)
(* first did: the same outcome, the same passed value and the same issue   *)
(* sequence, field by field; nothing of an earlier call is carried over.   *)

C9_Idempotent == \A c \in 1..Len(results) : results[c] = results[1]

C9_Witness ==
    /\ Len(results) = 2
    /\ results[2].outcome = "returned"
    /\ Len(results[2].issues) > 2
    /\ ~results[2].passed

EarlierPhaseNames(phases, n) == {phases[j].name : j \in {k \in 1..(n - 1) : "name" \in DOMAIN phases[k]}}

Deps(phase) == IF "dependencies" \in DOMAIN phase THEN phase.dependencies ELSE <<>>

(* C3: once the workflow rule has run, every entry of a phase's            *)
(* dependencies that is not the name of a phase declared earlier in the    *)
(* sequence has its ERROR (one per such entry), also when a later phase    *)
(* bears the name; an entry naming an earlier phase has none.              *)

C3_ForwardDependencyIsError ==
    WorkflowRuleRan =>
        \A n \in 1..Len(Phases) :
            \A e \in 1..Len(Deps(Phases[n])) :
                LET dep == Deps(Phases[n])[e]
                    entries == Cardinality({x \in 1..Len(Deps(Phases[n])) : Deps(Phases[n])[x] = dep})
                    found == Count(issues, LAMBDA i : i = UndefinedDependencyIssue(Phases[n], n - 1, dep))
                IN  found = IF dep \in EarlierPhaseNames(Phases, n) THEN 0 ELSE entries

(* C4: a roles list whose reports_to relation has a cycle of length >= 2   *)
(* gets exactly one 'Circular reporting dependency' ERROR from the         *)
(* finished call; an acyclic one gets none. (Stated for lists whose ids    *)
(* are unique, where the relation is a map.)                               *)

C4_CycleReportedOnce ==
    (Finished /\ UniqueIds(Roles)) =>
        /\ HasLongCycle(Roles) => Count(issues, IsCycleIssue) = 1
        /\ Acyclic(Roles) => Count(issues, IsCycleIssue) = 0

IsDuplicateIssue(i, id) ==
    i.level = ERROR /\ i.category = "roles" /\ i.message = "Duplicate role ID: " \o id

Occurrences(roles, id) == {n \in 1..Len(roles) : "id" \in DOMAIN roles[n] /\ roles[n].id = id}

(* C6: when two roles share an id (the id occurring at exactly these two   *)
(* indices), the finished call has added exactly one duplicate-id ERROR    *)
(* for it, at the path of the later of the two, and has returned           *)
(* passed = false.                                                         *)

C6_DuplicateAtSecond ==
    Finished =>
        \A m, n \in 1..Len(Roles) :
            (m < n /\ Occurrences(Roles, GetId(Roles[m])) = {m, n}) =>
                /\ Count(issues, LAMBDA i : IsDuplicateIssue(i, Roles[m].id)) = 1
                /\ Count(issues, LAMBDA i : IsDuplicateIssue(i, Roles[m].id)
                                               /\ i.path = RolePath(n - 1)) = 1
                /\ pc = "done"
                /\ Last.outcome = "returned"
                /\ Last.passed = FALSE

IsUnresolvedIssue(i, role) ==
    /\ i.level = ERROR
    /\ i.category = "dependencies"
    /\ i.suggestion = "Ensure '" \o role.reports_to \o "' is defined in roles"
    /\ ("id" \in DOMAIN role => i = UndefinedSupervisorIssue(role, role.reports_to))

MutualPair == <<[id |-> "a", reports_to |-> "b"], [id |-> "b", reports_to |-> "a"]>>

(* C7: for every role that declares reports_to, the finished call has      *)
(* added an unresolved-reference ERROR (category 'dependencies') naming    *)
(* its target exactly when the target is the id of no declared role; two   *)
(* roles a and b reporting to each other get no such ERROR, get the cycle  *)
(* ERROR, and passed is false.                                             *)

C7_UnresolvedIffUndeclared ==
    Finished =>
        /\ \A n \in 1..Len(Roles) :
               "reports_to" \in DOMAIN Roles[n] =>
                   ((\E k \in 1..Len(issues) : IsUnresolvedIssue(issues[k], Roles[n]))
                        <=> Roles[n].reports_to \notin DeclaredRoleIds(Roles))
        /\ Roles = MutualPair =>
               /\ pc = "done"
               /\ Count(issues, LAMBDA i : i.category = "dependencies") = 1
               /\ Count(issues, IsCycleIssue) = 1
               /\ Last.passed = FALSE

WellFormedRoles(roles) ==
    /\ roles # <<>>
    /\ AllHaveIds(roles)
    /\ UniqueIds(roles)
    /\ \A n \in 1..Len(roles) : "model" \in DOMAIN roles[n] /\ roles[n].model \in ValidModels
    /\ \A n \in 1..Len(roles) :
           "reports_to" \in DOMAIN roles[n] =>
               \E m \in 1..Len(roles) : roles[m].id = roles[n].reports_to
    /\ Acyclic(roles)

WellFormedPhases(phases) ==
    /\ \A n \in 1..Len(phases) : "name" \in DOMAIN phases[n]
    /\ \A m, n \in 1..Len(phases) : phases[m].name = phases[n].name => m = n
    /\ \A n \in 1..Len(phases) :
           \A e \in 1..Len(Deps(phases[n])) :
               Deps(phases[n])[e] \in EarlierPhaseNames(phases, n)

WellFormed(cfg) ==
    /\ {"name", "roles", "workflow"} \subseteq DOMAIN cfg
    /\ IsStr(cfg.name) /\ cfg.name.val # ""
    /\ WellFormedRoles(cfg.roles)
    /\ "phases" \in DOMAIN cfg.workflow => WellFormedPhases(cfg.workflow.phases)

(* C8: a document with a non-empty string name, a non-empty roles list of  *)
(* roles with unique ids, valid models and resolved, acyclic reports_to,   *)
(* and a workflow whose phases have unique names and only backward         *)
(* dependencies always ends with passed = true, whatever its token_budget, *)
(* team size, role types, durations, communication block and               *)
(* best-practice keys are: none of those produces an ERROR.                *)

C8_PolicyNeverBlocks ==
    (Finished /\ WellFormed(config)) =>
        /\ pc = "done"
        /\ Last.outcome = "returned"
        /\ Last.passed = TRUE

IsLevel(i, level, category) == i.level = level /\ i.category = category

C8_Witness ==
    /\ pc = "done"
    /\ WellFormed(config)
    /\ Last.passed
    /\ Len(config.roles) > 15
    /\ Count(Last.issues, LAMBDA i : IsLevel(i, WARNING, "resources")) = 1
    /\ Count(Last.issues, LAMBDA i : IsLevel(i, WARNING, "roles")) = 1
    /\ Count(Last.issues, LAMBDA i : IsLevel(i, WARNING, "best-practices")) = 1
    /\ Count(Last.issues, LAMBDA i : IsLevel(i, INFO, "communication")) = 1

IsInvalidModelIssue(i) ==
    i.level = ERROR /\ i.category = "roles" /\ i.suggestion = "Use one of: opus, sonnet, haiku"

InvalidModelRoles(roles) ==
    {n \in 1..Len(roles) :
        "model" \in DOMAIN roles[n] /\ roles[n].model \notin {"opus", "sonnet", "haiku"}}

(* C10: once the roles rule has run, each role whose model is outside      *)
(* {opus, sonnet, haiku} has exactly one invalid-model ERROR, at its own   *)
(* path, a role whose model is in the set (or that has no model) has none, *)
(* and the number of invalid-model ERRORs is the number of such roles.     *)

C10_OneErrorPerInvalidModel ==
    RolesRuleRan =>
        /\ \A n \in 1..Len(Roles) :
               Count(issues, LAMBDA i : IsInvalidModelIssue(i)
                                           /\ i.path = RolePath(n - 1) \o ".model")
                   = IF n \in InvalidModelRoles(Roles) THEN 1 ELSE 0
        /\ Count(issues, IsInvalidModelIssue) = Cardinality(InvalidModelRoles(Roles))

C10_Witness ==
    /\ pc = "done"
    /\ Len(Roles) = 3
    /\ InvalidModelRoles(Roles) = {1, 3}
    /\ "model" \in DOMAIN Roles[2] /\ Roles[2].model = "haiku"
    /\ Count(issues, IsInvalidModelIssue) = 2

\* the integer percentage a duration of the documents stands for; a duration that
\* is no string, has no % sign or no integer before it stands for none
PercentTable ==
    {<<"40%", 40>>, <<"60%", 60>>, <<"150%", 150>>, <<"-50%", 0 - 50>>, <<"0%", 0>>,
     <<" 7 %", 7>>, <<"1_0%", 10>>}

Percent(phase) ==
    IF "duration" \in DOMAIN phase /\ phase.duration.type = "str"
           /\ \E t \in PercentTable : t[1] = Join(phase.duration.val)
    THEN (CHOOSE t \in PercentTable : t[1] = Join(phase.duration.val))[2]
    ELSE 0

RECURSIVE PercentSum(_)
PercentSum(phases) ==
    IF phases = <<>> THEN 0 ELSE Percent(Head(phases)) + PercentSum(Tail(phases))

IsDurationIssue(i) ==
    /\ i.level = WARNING
    /\ i.category = "workflow"
    /\ i.suggestion = "Adjust phase durations to sum to 100%"

(* C11 as stated: once the workflow rule has run, the duration-sum WARNING *)
(* is present exactly when the sum of the parseable percentages is nonzero *)
(* and not 100, sums below zero included.                                  *)

C11_WarnIffNonzeroNot100 ==
    WorkflowRuleRan =>
        ((\E k \in 1..Len(issues) : IsDurationIssue(issues[k]))
            <=> (PercentSum(Phases) # 0 /\ PercentSum(Phases) # 100))

(* C11 as amended: the duration-sum WARNING is present (once, naming the   *)
(* sum) exactly when the sum of the parseable percentages is greater than  *)
(* zero and not 100; a sum of zero or below gets none.                     *)

C11_WarnIffPositiveNot100 ==
    WorkflowRuleRan =>
        /\ (\E k \in 1..Len(issues) : IsDurationIssue(issues[k]))
               <=> (PercentSum(Phases) > 0 /\ PercentSum(Phases) # 100)
        /\ Count(issues, IsDurationIssue) <= 1
        /\ \A k \in 1..Len(issues) :
               IsDurationIssue(issues[k]) =>
                   issues[k].message
                       = "Phase durations sum to " \o StrInt(PercentSum(Phases)) \o "%, not 100%"

C11_Witness ==
    /\ pc = "done"
    /\ Len(Phases) = 2
    /\ PercentSum(Phases) = 80
    /\ Count(issues, IsDurationIssue) = 1

CommunicationRuleRan == WorkflowRuleRan /\ pc # "communication"

HasComm == "communication" \in DOMAIN config

Channels ==
    IF HasComm /\ "channels" \in DOMAIN config.communication
    THEN config.communication.channels ELSE <<>>

NoSyncChannel ==
    \A n \in 1..Len(Channels) :
        "type" \notin DOMAIN Channels[n] \/ Channels[n].type # "synchronous"

LackFrequency == {n \in 1..Len(Channels) : "frequency" \notin DOMAIN Channels[n]}

IsComm(i, level) == i.category = "communication" /\ i.level = level

IsFrequencyIssue(i, n) ==
    IsComm(i, INFO) /\ i.path = "communication.channels[" \o StrInt(n - 1) \o "].frequency"

\* what C12 says of the INFO issues, in its stated and its amended form alike
CommInfos ==
    /\ ~HasComm =>
           /\ Count(issues, LAMBDA i : i.category = "communication") = 1
           /\ Count(issues, LAMBDA i : IsComm(i, INFO)
                  /\ i.message = "No communication protocols defined") = 1
    /\ HasComm =>
           /\ \A n \in 1..Len(Channels) :
                  Count(issues, LAMBDA i : IsFrequencyIssue(i, n))
                      = IF n \in LackFrequency THEN 1 ELSE 0
           /\ Count(issues, LAMBDA i : IsComm(i, INFO)) = Cardinality(LackFrequency)

(* C12 as stated: once the communication rule has run, a document without  *)
(* communication block has exactly one INFO of the rule and nothing else;  *)
(* a block with no synchronous channel has the WARNING, also when it lists *)
(* no channels or has no channels key; each channel lacking frequency has  *)
(* its INFO.                                                               *)

C12_WarnWheneverNoSync ==
    CommunicationRuleRan =>
        /\ CommInfos
        /\ (HasComm /\ NoSyncChannel) => Count(issues, LAMBDA i : IsComm(i, WARNING)) >= 1

(* C12 as amended: the WARNING is present (once) exactly when the block    *)
(* has a channels key and none of the listed channels is synchronous, an   *)
(* empty list included; a block without channels key gets no issue at all; *)
(* the INFO issues are as stated.                                          *)

C12_WarnIffListedNoSync ==
    CommunicationRuleRan =>
        /\ CommInfos
        /\ Count(issues, LAMBDA i : IsComm(i, WARNING))
               = IF HasComm /\ "channels" \in DOMAIN config.communication /\ NoSyncChannel
                 THEN 1 ELSE 0
        /\ (HasComm /\ "channels" \notin DOMAIN config.communication)
               => Count(issues, LAMBDA i : i.category = "communication") = 0

C12_Witness ==
    /\ pc = "done"
    /\ Len(Channels) = 2
    /\ NoSyncChannel
    /\ Cardinality(LackFrequency) = 2
    /\ Count(issues, LAMBDA i : IsComm(i, WARNING)) = 1
    /\ Count(issues, LAMBDA i : IsComm(i, INFO)) = 2

ItemSuffixes == {"", ".id", ".model", ".responsibilities", ".name", ".dependencies"}

\* the index of the role or phase an issue's path points into, -1 when it points at none
ItemIndex(i, Path(_), count) ==
    IF \E n \in 0..(count - 1) : \E s \in ItemSuffixes : i.path = Path(n) \o s
    THEN CHOOSE n \in 0..(count - 1) : \E s \in ItemSuffixes : i.path = Path(n) \o s
    ELSE 0 - 1

InItemOrder(iss, Path(_), count) ==
    \A k, l \in 1..Len(iss) :
        (k < l /\ ItemIndex(iss[k], Path, count) >= 0 /\ ItemIndex(iss[l], Path, count) >= 0)
            => ItemIndex(iss[k], Path, count) <= ItemIndex(iss[l], Path, count)

\* the issues of the seven rules, in the declared order, for a document no rule raises on
RulesInOrder(cfg) ==
    _validate_structure(cfg) \o _validate_roles(cfg) \o _validate_workflow(cfg)
        \o _validate_communication(cfg) \o _validate_dependencies(cfg).issues
        \o _validate_resources(cfg) \o _validate_best_practices(cfg)

Segment(iss, before, rule) == SubSeq(iss, Len(before) + 1, Len(before) + Len(rule))

(* C13: a validate() call that has ended has run all seven rules and has    *)
(* returned the concatenation of their issues in the order structure,      *)
(* roles, workflow, communication, dependencies, resources, best-practices; *)
(* within the roles part and the workflow part the per-item issues are in  *)
(* increasing role index and phase index.                                  *)

C13_AllRulesInOrder ==
    Finished =>
        /\ pc = "done"
        /\ Last.outcome = "returned"
        /\ Last.issues = RulesInOrder(config)
        /\ InItemOrder(Segment(Last.issues, _validate_structure(config),
                               _validate_roles(config)), RolePath, Len(Roles))
        /\ InItemOrder(Segment(Last.issues,
                               _validate_structure(config) \o _validate_roles(config),
                               _validate_workflow(config)), PhasePath, Len(Phases))

Reported == pc = "reported"

Verdict == report[Len(report)]

HasLevel(level) == \E k \in 1..Len(Last.issues) : Last.issues[k].level = level

(* C14 as stated: the last line of the report says FAILED when the issue    *)
(* list holds an ERROR, PASSED with warnings when it holds no ERROR but a  *)
(* WARNING or an INFO, and plain PASSED only when the list is empty.       *)

C14_PassedOnlyIfEmpty ==
    Reported =>
        Verdict = IF HasLevel(ERROR) THEN FailedLine
                  ELSE IF Last.issues # <<>> THEN WarningsLine
                  ELSE PassedLine

(* C14 as amended: the last line of the report says FAILED when the issue   *)
(* list holds an ERROR, PASSED with warnings when it holds no ERROR but a  *)
(* WARNING, and plain PASSED otherwise, so also when the list holds INFO   *)
(* issues only.                                                            *)

C14_PassedIfNoErrorNoWarning ==
    Reported =>
        /\ HasLevel(ERROR) => Verdict = FailedLine
        /\ (~HasLevel(ERROR) /\ HasLevel(WARNING)) => Verdict = WarningsLine
        /\ (~HasLevel(ERROR) /\ ~HasLevel(WARNING)) => Verdict = PassedLine

C14_Witness ==
    /\ Reported
    /\ Last.issues # <<>>
    /\ \A k \in 1..Len(Last.issues) : Last.issues[k].level = INFO
    /\ Verdict = PassedLine

TypeOf(role) == IF "type" \in DOMAIN role THEN role.type ELSE <<>>

\* the entries of the keyword table whose keyword occurs in the lowercased type
Matching(role) ==
    {k \in 1..Len(role_models) : Contains(role_models[k][1], lower(TypeOf(role)))}

FirstMatch(role) == CHOOSE k \in Matching(role) : \A h \in Matching(role) : k <= h

Recommended(role) ==
    IF Matching(role) = {} THEN "sonnet" ELSE role_models[FirstMatch(role)][2]

IsFitIssue(i, n) ==
    i.level = INFO /\ i.category = "optimization" /\ i.path = RolePath(n - 1) \o ".model"

(* C15 as stated: once the roles rule has run, a role that has a model has  *)
(* the optimization INFO exactly when its lowercased type contains a       *)
(* keyword of the table and its model differs from the model of the first  *)
(* matching keyword.                                                       *)

C15_InfoIffKeywordMatches ==
    RolesRuleRan =>
        \A n \in 1..Len(Roles) :
            "model" \in DOMAIN Roles[n] =>
                ((\E k \in 1..Len(issues) : IsFitIssue(issues[k], n))
                    <=> (Matching(Roles[n]) # {}
                            /\ Roles[n].model # role_models[FirstMatch(Roles[n])][2]))

(* C15 as amended: once the roles rule has run, a role that has a model has *)
(* the optimization INFO (once, naming the recommended model) exactly when *)
(* its model differs from the recommended model, which is the model of the *)
(* first keyword of the table, in declaration order, that occurs in the    *)
(* lowercased type, and sonnet when no keyword occurs; a role without      *)
(* model has no such INFO.                                                 *)

C15_InfoIffNotRecommended ==
    RolesRuleRan =>
        \A n \in 1..Len(Roles) :
            /\ Count(issues, LAMBDA i : IsFitIssue(i, n))
                   = IF "model" \in DOMAIN Roles[n] /\ Roles[n].model # Recommended(Roles[n])
                     THEN 1 ELSE 0
            /\ \A k \in 1..Len(issues) :
                   IsFitIssue(issues[k], n) =>
                       issues[k].suggestion
                           = "Consider using " \o Recommended(Roles[n]) \o " for "
                                 \o Join(TypeOf(Roles[n])) \o " roles"

C15_Witness ==
    /\ pc = "done"
    /\ Len(Roles) = 2
    /\ TypeOf(Roles[1]) = TypeMonitorCeo
    /\ "model" \in DOMAIN Roles[1] /\ Roles[1].model = "sonnet"
    /\ TypeOf(Roles[2]) = TypeOps
    /\ "model" \in DOMAIN Roles[2] /\ Roles[2].model = "sonnet"
    /\ Count(issues, LAMBDA i : IsFitIssue(i, 1)) = 1
    /\ Count(issues, LAMBDA i : IsFitIssue(i, 2)) = 0

IsLargeTeamIssue(i) ==
    /\ i.level = WARNING
    /\ i.message = "Large team size (" \o StrInt(Len(Roles)) \o ") may cause coordination overhead"

IsSmallTeamIssue(i) ==
    /\ i.level = INFO
    /\ i.message = "Small team size (" \o StrInt(Len(Roles)) \o ") may limit parallelization"

TwentyRolesPass ==
    (pc = "done" /\ Len(Roles) = 20)
        => (Count(issues, IsLargeTeamIssue) = 1 /\ Last.outcome = "returned" /\ Last.passed)

(* C16 as stated: once the roles rule has run on a document with a roles    *)
(* list, the Large team size WARNING is present exactly when there are     *)
(* more than 15 roles and the Small team size INFO exactly when there are  *)
(* fewer than 3; a document of 20 valid, acyclic roles has the WARNING and *)
(* passes.                                                                 *)

C16_SmallIffUnderThree ==
    /\ (RolesRuleRan /\ "roles" \in DOMAIN config) =>
           /\ (\E k \in 1..Len(issues) : IsLargeTeamIssue(issues[k])) <=> Len(Roles) > 15
           /\ (\E k \in 1..Len(issues) : IsSmallTeamIssue(issues[k])) <=> Len(Roles) < 3
    /\ TwentyRolesPass

(* C16 as amended: once the roles rule has run on a document with a         *)
(* non-empty roles list, the Large team size WARNING is present (once)     *)
(* exactly when there are more than 15 roles and the Small team size INFO  *)
(* (once) exactly when there are fewer than 3; an empty roles list has the *)
(* at-least-one-role ERROR and neither of the two; a document of 20 valid, *)
(* acyclic roles has the WARNING and passes.                               *)

C16_SizeOfNonEmptyTeam ==
    /\ (RolesRuleRan /\ "roles" \in DOMAIN config) =>
           /\ Count(issues, IsLargeTeamIssue) = IF Len(Roles) > 15 THEN 1 ELSE 0
           /\ Count(issues, IsSmallTeamIssue) = IF Len(Roles) \in 1..2 THEN 1 ELSE 0
           /\ Roles = <<>> =>
                  Count(issues, LAMBDA i : i.level = ERROR
                            /\ i.message = "Team must have at least one role") = 1
    /\ TwentyRolesPass

C16_Witness ==
    /\ pc = "done"
    /\ Len(Roles) = 20
    /\ Acyclic(Roles)
    /\ Count(issues, IsLargeTeamIssue) = 1
    /\ Last.passed

\* what validate() does on a document when nothing else runs
Alone(cfg) ==
    IF _validate_dependencies(cfg).raised THEN [outcome |-> "KeyError"]
    ELSE [outcome |-> "returned", passed |-> ~HasErrors(RulesInOrder(cfg)),
          issues |-> RulesInOrder(cfg)]

PeerFinished == peer.pc \in {"done", "raised"}

(* C17: with two validators running validate() on their own documents, in  *)
(* every interleaving of their rule steps each call ends as it ends when   *)
(* run alone: the same issue sequence and passed value (or the same        *)
(* exception).                                                             *)

C17_NoInterference ==
    /\ Finished => Last = Alone(config)
    /\ PeerFinished => peer.result = Alone(peer.config)

C17_Witness ==
    /\ pc = "done" /\ calls = 1
    /\ peer.pc = "done"
    /\ config # peer.config
    /\ Last.issues # <<>> /\ peer.result.issues # <<>>
    /\ Last.issues # peer.result.issues
    /\ Last.passed /\ ~peer.result.passed

Running == dfs # NoDfs

Ended == Running /\ dfs.pc = "end"

\* the nodes whose visit is in progress
BeingExplored == Range(dfs.frames)

\* a visit has answered True and the answer is on its way out
CycleFound == (dfs.pc = "ret" /\ dfs.ret) \/ (dfs.pc = "end" /\ dfs.result)

ExpandedOnce == \A x \in DOMAIN dfs.expanded : dfs.expanded[x] <= 1

\* every node met: the keys and their successors
NodesOf(graph) == DOMAIN graph \cup {graph[x] : x \in DOMAIN graph}

\* each node costs an entry, a body and a return, each key a turn of the loop,
\* each edge a call that may find its target visited
WithinLinearTime ==
    dfs.steps <= 3 * Cardinality(NodesOf(dfs.graph)) + 3 * Cardinality(DOMAIN dfs.graph) + 1

(* C18 as stated: on every reporting map has_cycle terminates, it expands   *)
(* no node twice, and a node is on the stack only while it is being        *)
(* explored.                                                               *)

C18_OnStackOnlyWhileExplored ==
    /\ [](Running => (ExpandedOnce /\ dfs.rec_stack \subseteq BeingExplored))
    /\ <>Ended

(* C18 as amended: on every reporting map has_cycle terminates, within a    *)
(* number of steps linear in the nodes and edges, with the answer that     *)
(* tells whether the map has a cycle; it expands no node twice; a node     *)
(* being explored is on the stack, and until a cycle is found the stack    *)
(* holds exactly the nodes being explored (once a visit has found a cycle  *)
(* the nodes of the path stay on the stack while the calls return).        *)

C18_TerminatesExpandingOnce ==
    /\ [](Running =>
            /\ ExpandedOnce
            /\ BeingExplored \subseteq dfs.rec_stack
            /\ ~CycleFound => dfs.rec_stack = BeingExplored
            /\ WithinLinearTime
            /\ Ended => (dfs.result = has_cycle(dfs.graph, dfs.keys)
                            /\ dfs.result = ~Acyclic(Roles)))
    /\ <>Ended

C18_Witness ==
    /\ Ended
    /\ dfs.result
    /\ dfs.visited = {"a", "z", "b", "c"}
    /\ dfs.rec_stack = {"b", "c"}
    /\ dfs.frames = <<>>

SelfReporting(role) ==
    "id" \in DOMAIN role /\ "reports_to" \in DOMAIN role /\ role.reports_to = role.id

SelfReportIsCycle ==
    \A n \in 1..Len(Roles) :
        SelfReporting(Roles[n]) =>
            /\ Last.outcome = "returned"
            /\ \E k \in 1..Len(Last.issues) : IsCycleIssue(Last.issues[k])
            /\ \A k \in 1..Len(Last.issues) : ~IsUnresolvedIssue(Last.issues[k], Roles[n])
            /\ ~Last.passed

(* C19: when a role reports to its own id, the finished validate() call    *)
(* has returned with the cycle ERROR, without unresolved-reference ERROR   *)
(* for that role, and with passed false.                                   *)

C19_SelfReportIsCycle == Finished => SelfReportIsCycle

====
